---------------------------- MODULE Spec2Model ----------------------------
(***************************************************************************)
(* The Waterfall chart transform of plugin-chart-echarts                   *)
(* (Waterfall/transformProps.ts): transformer, the cumulative and the     *)
(* non-cumulative branch of transformProps, the category axis data and    *)
(* formatTooltip.                                                          *)
(*                                                                         *)
(* JavaScript values are records [k, n]: k is the kind ("num", "null",     *)
(* "undefined", "NaN", "token") and n the integer of a "num".  +0 and -0   *)
(* are one value, Num(0): the code only compares them (-0 === 0, -0 < 0 is *)
(* false) and never divides by them.                                       *)
(***************************************************************************)
EXTENDS Integers, Sequences, FiniteSets

\* ------------------------------------------------------------ bounds
MaxRows == 2
MaxVal == 2
MaxRenders == 2

\* ------------------------------------------------------------ JS values
Num(n) == [k |-> "num", n |-> n]
Null == [k |-> "null", n |-> 0]
Undef == [k |-> "undefined", n |-> 0]
NaN == [k |-> "NaN", n |-> 0]
TOKEN == [k |-> "token", n |-> 0]

TOTAL_MARK == "Total"
NULL_STRING == "<NULL>"
ASSIST_MARK == "assist"
NoValue == ""

IsNum(v) == v.k = "num"
Nullish(v) == v.k \in {"null", "undefined"}

\* x ?? 0
OrZero(v) == IF Nullish(v) THEN Num(0) ELSE v

\* ToNumber, as applied by the arithmetic operators, Math.sign, Math.abs, Number()
ToNumber(v) == IF v.k = "null" THEN Num(0) ELSE IF v.k = "num" THEN v ELSE NaN

Sign(n) == IF n > 0 THEN 1 ELSE IF n < 0 THEN -1 ELSE 0
Abs(n) == IF n < 0 THEN -n ELSE n

MathSign(v) == IF IsNum(ToNumber(v)) THEN Num(Sign(ToNumber(v).n)) ELSE NaN
MathAbs(v) == IF IsNum(ToNumber(v)) THEN Num(Abs(ToNumber(v).n)) ELSE NaN
JsSub(a, b) ==
    IF IsNum(ToNumber(a)) /\ IsNum(ToNumber(b))
    THEN Num(ToNumber(a).n - ToNumber(b).n) ELSE NaN
JsMul(a, b) ==
    IF IsNum(ToNumber(a)) /\ IsNum(ToNumber(b))
    THEN Num(ToNumber(a).n * ToNumber(b).n) ELSE NaN
\* unary minus
JsNeg(v) == IF IsNum(ToNumber(v)) THEN Num(-(ToNumber(v).n)) ELSE NaN
\* v < 0 and v > 0: false when v converts to NaN
JsLt0(v) == IsNum(ToNumber(v)) /\ ToNumber(v).n < 0
JsGt0(v) == IsNum(ToNumber(v)) /\ ToNumber(v).n > 0

\* ------------------------------------------------------------ rows
\* A DataRecord: the category column (xAxis), the breakdown column, the metric
\* column (cumulative mode) and the start/end metric columns (non-cumulative).
\* A column the row does not have is NoValue (strings) or Undef (numbers).
Row(cat, bd, m, s, e) == [cat |-> cat, bd |-> bd, m |-> m, s |-> s, e |-> e]

\* (cur[metric] as number) ?? 0, as an integer
MetricOrZero(row) == ToNumber(OrZero(row.m)).n

\* mutant: the reducer drops its accumulator
SumMetricLastOnly(rows) ==
    IF rows = << >> THEN 0 ELSE MetricOrZero(rows[Len(rows)])

\* value.reduce((acc, cur) => acc + ((cur[metric] as number) ?? 0), 0)
RECURSIVE SumMetric(_)
SumMetric(rows) ==
    IF rows = << >> THEN 0
    ELSE SumMetric(SubSeq(rows, 1, Len(rows) - 1)) + MetricOrZero(rows[Len(rows)])

\* position of the Map entry of a key, 0 when the Map has none
RECURSIVE EntryOf(_, _, _)
EntryOf(acc, key, i) ==
    IF i > Len(acc) THEN 0
    ELSE IF acc[i].key = key THEN i
    ELSE EntryOf(acc, key, i + 1)

\* data.reduce(..., new Map()): the Map as the sequence of its entries in
\* insertion order; every entry's array is a fresh one that the rows are pushed to
RECURSIVE GroupReduce(_, _, _)
GroupReduce(data, i, acc) ==
    IF i > Len(data) THEN acc
    ELSE LET cur == data[i]
             pos == EntryOf(acc, cur.cat, 1)
         IN  GroupReduce(data, i + 1,
                 IF pos = 0
                 THEN Append(acc, [key |-> cur.cat, value |-> <<cur>>])
                 ELSE [acc EXCEPT ![pos].value = Append(@, cur)])

groupedData(data) == GroupReduce(data, 1, << >>)

\* The arrays transformer works on: the caller's data array, the Map's entry
\* arrays and transformedData.
Store(data, groups, td) == [data |-> data, groups |-> groups, transformedData |-> td]

\* mutant: the entry arrays alias the caller's rows, the push reaches data too
PushTotalIntoData(st, i, row) ==
    [st EXCEPT !.data = Append(@, row), !.groups[i].value = Append(@, row)]

\* tempValue.push(row): tempValue is the Map's own array of entry i
PushTotal(st, i, row) == [st EXCEPT !.groups[i].value = Append(@, row)]

\* groupedData.forEach of the breakdown branch, from entry i on
RECURSIVE BreakdownEach(_, _, _, _)
BreakdownEach(st, i, totalMark, showTotal) ==
    IF i > Len(st.groups) THEN st
    ELSE LET sum == SumMetric(st.groups[i].value)
             st1 == IF showTotal
                    THEN PushTotal(st, i,
                             Row(st.groups[i].key, totalMark, Num(sum), Undef, Undef))
                    ELSE st
             st2 == [st1 EXCEPT !.transformedData = @ \o st1.groups[i].value]
         IN  BreakdownEach(st2, i + 1, totalMark, showTotal)

\* groupedData.forEach of the branch without a breakdown, from entry i on;
\* total is the local accumulator
RECURSIVE PlainEach(_, _, _)
PlainEach(st, i, total) ==
    IF i > Len(st.groups) THEN [st |-> st, total |-> total]
    ELSE LET sum == SumMetric(st.groups[i].value)
             st1 == [st EXCEPT !.transformedData =
                        Append(@, Row(st.groups[i].key, NoValue, Num(sum), Undef, Undef))]
         IN  PlainEach(st1, i + 1, total + sum)

\* transformer: the store it leaves (transformedData is what it returns)
transformer(data, breakdown, totalMark, showTotal) ==
    LET st0 == Store(data, groupedData(data), << >>)
    IN  IF breakdown
        THEN BreakdownEach(st0, 1, totalMark, showTotal)
        ELSE LET r == PlainEach(st0, 1, 0)
             IN  IF showTotal
                 THEN [r.st EXCEPT !.transformedData =
                          Append(@, Row(totalMark, NoValue, Num(r.total), Undef, Undef))]
                 ELSE r.st

\* ------------------------------------------------------------ series points
\* An ISeriesData object; a field the object does not have is Undef, and
\* NoStyle stands for an object without itemStyle.
ItemStyle(color, opacity) == [color |-> color, opacity |-> opacity]
NoStyle == ItemStyle("undefined", Undef)
Point(value, originalValue, totalSum, start, end, itemStyle) ==
    [value |-> value, originalValue |-> originalValue, totalSum |-> totalSum,
     start |-> start, end |-> end, itemStyle |-> itemStyle]
TokenPoint == Point(TOKEN, Undef, Undef, Undef, Undef, NoStyle)

Series(assist, increase, decrease, total) ==
    [assist |-> assist, increase |-> increase, decrease |-> decrease, total |-> total]
EmptySeries == Series(<< >>, << >>, << >>, << >>)
\* mutant: a branch that pushes no assist point when there is no assist bar
PushAllButTokenAssist(acc, a, i, d, t) ==
    Series(IF a.value = TOKEN THEN acc.assist ELSE Append(acc.assist, a),
           Append(acc.increase, i), Append(acc.decrease, d), Append(acc.total, t))

\* the four push calls of one branch of a loop body
PushAll(acc, a, i, d, t) ==
    Series(Append(acc.assist, a), Append(acc.increase, i),
           Append(acc.decrease, d), Append(acc.total, t))

\* rgbToHex of the default increaseColor {90, 193, 137} and decreaseColor {224, 67, 85}
IncreaseHex == "#5ac189"
DecreaseHex == "#e04355"

\* (breakdownName && row[breakdownName] === totalMark) || row[xAxisName] === totalMark
IsTotalRow(row, breakdown, totalMark) ==
    (breakdown /\ row.bd = totalMark) \/ row.cat = totalMark

\* ------------------------------------------------------------ non-cumulative
\* Number(label && row[label] != null ? row[label] : 0)
NumberOrZero(v) == ToNumber(IF Nullish(v) THEN Num(0) ELSE v)

\* mutant: delta taken as start - end
NonCumulativeRowSwapped(row, breakdown, totalMark) ==
    LET isTotal == IsTotalRow(row, breakdown, totalMark)
        start == NumberOrZero(row.s)
        end == NumberOrZero(row.e)
        delta == JsSub(start, end)
    IN  IF isTotal
        THEN [assist |-> TokenPoint, increase |-> TokenPoint, decrease |-> TokenPoint,
              total |-> Point(end, end, end, Num(0), end, NoStyle)]
        ELSE IF ~JsLt0(delta)
        THEN [assist |-> Point(start, Undef, Undef, Undef, Undef,
                               ItemStyle("transparent", Undef)),
              increase |-> Point(delta, delta, end, start, end, NoStyle),
              decrease |-> TokenPoint,
              total |-> TokenPoint]
        ELSE [assist |-> Point(start, Undef, Undef, Undef, Undef,
                               ItemStyle("transparent", Undef)),
              increase |-> TokenPoint,
              decrease |-> Point(JsNeg(delta), delta, end, start, end, NoStyle),
              total |-> TokenPoint]

\* the body of data.forEach in the non-cumulative branch: the four points one
\* row pushes
NonCumulativeRow(row, breakdown, totalMark) ==
    LET isTotal == IsTotalRow(row, breakdown, totalMark)
        start == NumberOrZero(row.s)
        end == NumberOrZero(row.e)
        delta == JsSub(end, start)
    IN  IF isTotal
        THEN [assist |-> TokenPoint, increase |-> TokenPoint, decrease |-> TokenPoint,
              total |-> Point(end, end, end, Num(0), end, NoStyle)]
        ELSE IF ~JsLt0(delta)
        THEN [assist |-> Point(start, Undef, Undef, Undef, Undef,
                               ItemStyle("transparent", Undef)),
              increase |-> Point(delta, delta, end, start, end, NoStyle),
              decrease |-> TokenPoint,
              total |-> TokenPoint]
        ELSE [assist |-> Point(start, Undef, Undef, Undef, Undef,
                               ItemStyle("transparent", Undef)),
              increase |-> TokenPoint,
              decrease |-> Point(JsNeg(delta), delta, end, start, end, NoStyle),
              total |-> TokenPoint]

RECURSIVE NonCumulativeEach(_, _, _, _, _)
NonCumulativeEach(data, idx, acc, breakdown, totalMark) ==
    IF idx > Len(data) THEN acc
    ELSE LET p == NonCumulativeRow(data[idx], breakdown, totalMark)
         IN  NonCumulativeEach(data, idx + 1,
                 PushAll(acc, p.assist, p.increase, p.decrease, p.total),
                 breakdown, totalMark)

\* ------------------------------------------------------------ cumulative
\* mutant: && for || in the breakdown test, so only position 1 can count
RECURSIVE TotalSumAndForOr(_, _, _, _)
TotalSumAndForOr(self, index, breakdown, totalMark) ==
    IF index = 0 THEN 0
    ELSE LET prev == TotalSumAndForOr(self, index - 1, breakdown, totalMark)
             cur == self[index]
         IN  IF breakdown
             THEN IF cur.bd # totalMark /\ index = 1
                  THEN prev + MetricOrZero(cur) ELSE prev
             ELSE IF cur.cat # totalMark
                  THEN prev + MetricOrZero(cur) ELSE prev

\* self.slice(0, index + 1).reduce(...): the running total at position index
\* (positions count from 1, so the code's i === 0 is i = 1)
RECURSIVE TotalSum(_, _, _, _)
TotalSum(self, index, breakdown, totalMark) ==
    IF index = 0 THEN 0
    ELSE LET prev == TotalSum(self, index - 1, breakdown, totalMark)
             cur == self[index]
         IN  IF breakdown
             THEN IF cur.bd # totalMark \/ index = 1
                  THEN prev + MetricOrZero(cur) ELSE prev
             ELSE IF cur.cat # totalMark
                  THEN prev + MetricOrZero(cur) ELSE prev

\* Math.sign(previousTotal) !== Math.sign(totalSum)
OppositeSigns(previousTotal, totalSum) == Sign(previousTotal) # Sign(totalSum)

\* mutant: the value is never clipped when the running total changes sign
ClippedValueUnclipped(originalValue, previousTotal, totalSum) == originalValue

\* let value = originalValue; if (oppositeSigns) value = Math.sign(value) * (...)
ClippedValue(originalValue, previousTotal, totalSum) ==
    IF OppositeSigns(previousTotal, totalSum)
    THEN JsMul(MathSign(originalValue),
               JsSub(MathAbs(originalValue), Num(Abs(previousTotal))))
    ELSE originalValue

\* mutant: the decrease bar keeps the sign of value whatever the running total
CumulativeBarsRawDecrease(isTotal, originalValue, value, totalSum) ==
    IF isTotal
    THEN [increase |-> TokenPoint, decrease |-> TokenPoint,
          total |-> Point(Num(totalSum), Num(totalSum), Num(totalSum),
                          Undef, Undef, NoStyle)]
    ELSE IF JsLt0(value)
    THEN [increase |-> TokenPoint,
          decrease |-> Point(value, originalValue, Num(totalSum), Undef, Undef, NoStyle),
          total |-> TokenPoint]
    ELSE [increase |-> Point(IF totalSum > 0 THEN value ELSE JsNeg(value),
                             originalValue, Num(totalSum), Undef, Undef, NoStyle),
          decrease |-> TokenPoint,
          total |-> TokenPoint]

\* mutant: the total bar shows the row's own metric, not the running total
CumulativeBarsTotalOwnSum(isTotal, originalValue, value, totalSum) ==
    IF isTotal
    THEN [increase |-> TokenPoint, decrease |-> TokenPoint,
          total |-> Point(originalValue, originalValue, Num(totalSum),
                          Undef, Undef, NoStyle)]
    ELSE IF JsLt0(value)
    THEN [increase |-> TokenPoint,
          decrease |-> Point(IF totalSum < 0 THEN value ELSE JsNeg(value),
                             originalValue, Num(totalSum), Undef, Undef, NoStyle),
          total |-> TokenPoint]
    ELSE [increase |-> Point(IF totalSum > 0 THEN value ELSE JsNeg(value),
                             originalValue, Num(totalSum), Undef, Undef, NoStyle),
          decrease |-> TokenPoint,
          total |-> TokenPoint]

\* mutant: the total branch leaves a bar in the increase series too
CumulativeBarsTotalAlsoIncrease(isTotal, originalValue, value, totalSum) ==
    IF isTotal
    THEN [increase |-> Point(Num(totalSum), Num(totalSum), Num(totalSum),
                             Undef, Undef, NoStyle),
          decrease |-> TokenPoint,
          total |-> Point(Num(totalSum), Num(totalSum), Num(totalSum),
                          Undef, Undef, NoStyle)]
    ELSE IF JsLt0(value)
    THEN [increase |-> TokenPoint,
          decrease |-> Point(IF totalSum < 0 THEN value ELSE JsNeg(value),
                             originalValue, Num(totalSum), Undef, Undef, NoStyle),
          total |-> TokenPoint]
    ELSE [increase |-> Point(IF totalSum > 0 THEN value ELSE JsNeg(value),
                             originalValue, Num(totalSum), Undef, Undef, NoStyle),
          decrease |-> TokenPoint,
          total |-> TokenPoint]

\* the increase, decrease and total points of one datum
CumulativeBars(isTotal, originalValue, value, totalSum) ==
    IF isTotal
    THEN [increase |-> TokenPoint, decrease |-> TokenPoint,
          total |-> Point(Num(totalSum), Num(totalSum), Num(totalSum),
                          Undef, Undef, NoStyle)]
    ELSE IF JsLt0(value)
    THEN [increase |-> TokenPoint,
          decrease |-> Point(IF totalSum < 0 THEN value ELSE JsNeg(value),
                             originalValue, Num(totalSum), Undef, Undef, NoStyle),
          total |-> TokenPoint]
    ELSE [increase |-> Point(IF totalSum > 0 THEN value ELSE JsNeg(value),
                             originalValue, Num(totalSum), Undef, Undef, NoStyle),
          decrease |-> TokenPoint,
          total |-> TokenPoint]

\* const color = oppositeSigns ? (value > 0 ? increase : decrease) : 'transparent'
AssistColor(value, previousTotal, totalSum) ==
    IF OppositeSigns(previousTotal, totalSum)
    THEN IF JsGt0(value) THEN IncreaseHex ELSE DecreaseHex
    ELSE "transparent"

\* let opacity = 1; if (legendState?.[INCREASE] === false && value > 0) ...
AssistOpacity(value, legendState) ==
    IF legendState.INCREASE = FALSE /\ JsGt0(value) THEN 0
    ELSE IF legendState.DECREASE = FALSE /\ JsLt0(value) THEN 0
    ELSE 1

\* the assist point of one datum (index counts from 1)
AssistBar(isTotal, index, value, previousTotal, totalSum, legendState) ==
    LET style == ItemStyle(AssistColor(value, previousTotal, totalSum),
                           Num(AssistOpacity(value, legendState)))
    IN  IF isTotal THEN TokenPoint
        ELSE IF index = 1
        THEN Point(Num(0), Undef, Undef, Undef, Undef, NoStyle)
        ELSE IF OppositeSigns(previousTotal, totalSum)
                \/ Abs(totalSum) > Abs(previousTotal)
        THEN Point(Num(previousTotal), Undef, Undef, Undef, Undef, style)
        ELSE Point(Num(totalSum), Undef, Undef, Undef, Undef, style)

\* transformedData.forEach of the cumulative branch, from position index on;
\* previousTotal is the accumulator the loop threads
RECURSIVE CumulativeEach(_, _, _, _, _, _, _)
CumulativeEach(self, index, previousTotal, acc, breakdown, totalMark, legendState) ==
    IF index > Len(self) THEN acc
    ELSE LET datum == self[index]
             totalSum == TotalSum(self, index, breakdown, totalMark)
             isTotal == IsTotalRow(datum, breakdown, totalMark)
             originalValue == datum.m
             value == ClippedValue(originalValue, previousTotal, totalSum)
             bars == CumulativeBars(isTotal, originalValue, value, totalSum)
             assist == AssistBar(isTotal, index, value, previousTotal, totalSum,
                                 legendState)
         IN  CumulativeEach(self, index + 1, totalSum,
                 PushAll(acc, assist, bars.increase, bars.decrease, bars.total),
                 breakdown, totalMark, legendState)

\* ------------------------------------------------------------ category axis
\* transformedData.map(row => ...): the label of one row
XAxisValue(row, breakdown, totalMark) ==
    LET value == IF breakdown /\ row.bd # totalMark THEN row.bd ELSE row.cat
    IN  IF value = NoValue THEN NULL_STRING ELSE value

XAxisData(td, breakdown, totalMark) ==
    [i \in 1..Len(td) |-> XAxisValue(td[i], breakdown, totalMark)]

\* ------------------------------------------------------------ transformProps
\* legendNames with no label overrides (LEGEND of ./constants)
LEGEND == [INCREASE |-> "Increase", DECREASE |-> "Decrease", TOTAL |-> "Total"]

\* Boolean(nonCumulative && metricStartLabel && metricEndLabel)
UseNonCumulative(formData) ==
    formData.nonCumulative /\ formData.metricStart /\ formData.metricEnd

\* transformedData.push(row) for every row of data, in order
PushRows(data) == [i \in 1..Len(data) |-> data[i]]

\* What one call of transformProps leaves: the four series and the category
\* axis data of echartOptions, and the caller's data array after the call.
transformProps(data, formData, legendState) ==
    LET totalMark == TOTAL_MARK
        breakdown == formData.breakdown
    IN  IF UseNonCumulative(formData)
        THEN LET transformedData == PushRows(data)
             IN  [series |-> NonCumulativeEach(data, 1, EmptySeries, breakdown, totalMark),
                  xAxisData |-> XAxisData(transformedData, breakdown, totalMark),
                  transformedData |-> transformedData,
                  data |-> data]
        ELSE LET st == transformer(data, breakdown, totalMark, formData.showTotal)
                 transformedData == st.transformedData
             IN  [series |-> CumulativeEach(transformedData, 1, 0, EmptySeries,
                                            breakdown, totalMark, legendState),
                  xAxisData |-> XAxisData(transformedData, breakdown, totalMark),
                  transformedData |-> transformedData,
                  data |-> st.data]

\* ------------------------------------------------------------ formatTooltip
\* defaultFormatter(v), and `${percentChange.toFixed(2)}%` as the number of
\* hundredths of a percent
Formatted(v) == [kind |-> "number", v |-> v]
PercentText(h) == [kind |-> "percent", v |-> h]
TooltipRow(label, text) == [label |-> label, text |-> text]

\* n / d rounded to the nearest integer (d # 0); the bounded inputs give no ties
RoundDiv(n, d) ==
    LET an == Abs(n)
        ad == Abs(d)
        q == (2 * an + ad) \div (2 * ad)
    IN  IF Sign(n) * Sign(d) < 0 THEN -q ELSE q

\* typeof v === 'number'
TypeofNumber(v) == v.k \in {"num", "NaN"}

\* percentChange: null, or (absChange / start) * 100 kept as the fraction
\* n / d so that the division is visible
NoPercent == [k |-> "null", n |-> 0, d |-> 1]
PercentChange(start, absChange) ==
    IF TypeofNumber(start) /\ start # Num(0) /\ TypeofNumber(absChange)
    THEN IF IsNum(start) /\ IsNum(absChange)
         THEN [k |-> "num", n |-> absChange.n * 100, d |-> start.n]
         ELSE [k |-> "NaN", n |-> 0, d |-> 1]
    ELSE NoPercent

\* percentChange.toFixed(2), in hundredths
ToFixed2(pc) == IF pc.k = "num" THEN Num(RoundDiv(pc.n * 100, pc.d)) ELSE NaN

\* One entry of params: the series' name, the axis label, the index, the point
Param(seriesName, name, dataIndex, point) ==
    [seriesName |-> seriesName, name |-> name, dataIndex |-> dataIndex, data |-> point]

\* params.find(param => param.seriesName !== ASSIST_MARK && param.data.value !== TOKEN):
\* the position of the first such entry, 0 when there is none
RECURSIVE FindSeries(_, _)
FindSeries(params, i) ==
    IF i > Len(params) THEN 0
    ELSE IF params[i].seriesName # ASSIST_MARK /\ params[i].data.value # TOKEN THEN i
    ELSE FindSeries(params, i + 1)

\* return '' : no title, no rows
EmptyTooltip == [empty |-> TRUE, title |-> "undefined", rows |-> << >>,
                 percentChange |-> NoPercent]

\* mutant: the absolute change is pushed by an if of its own, not an else if
NonCumulativeTooltipRowsBoth(d) ==
    LET start == d.start
        end == IF Nullish(d.end) THEN d.totalSum ELSE d.end
        absChange == d.originalValue
        percentChange == PercentChange(start, absChange)
    IN  (IF start # Undef THEN <<TooltipRow("Start", Formatted(start))>> ELSE << >>)
        \o (IF end # Undef THEN <<TooltipRow("End", Formatted(end))>> ELSE << >>)
        \o (IF percentChange # NoPercent
            THEN <<TooltipRow("Change (%)", PercentText(ToFixed2(percentChange)))>>
            ELSE << >>)
        \o (IF absChange # Undef
            THEN <<TooltipRow("Change", Formatted(absChange))>>
            ELSE << >>)

\* the rows of the non-cumulative tooltip of a non-total entry
NonCumulativeTooltipRows(d) ==
    LET start == d.start
        end == IF Nullish(d.end) THEN d.totalSum ELSE d.end
        absChange == d.originalValue
        percentChange == PercentChange(start, absChange)
    IN  (IF start # Undef THEN <<TooltipRow("Start", Formatted(start))>> ELSE << >>)
        \o (IF end # Undef THEN <<TooltipRow("End", Formatted(end))>> ELSE << >>)
        \o (IF percentChange # NoPercent
            THEN <<TooltipRow("Change (%)", PercentText(ToFixed2(percentChange)))>>
            ELSE IF absChange # Undef
            THEN <<TooltipRow("Change", Formatted(absChange))>>
            ELSE << >>)

formatTooltip(params, breakdown, totalMark, useNonCumulative) ==
    LET pos == FindSeries(params, 1)
    IN  IF pos = 0 THEN EmptyTooltip
        ELSE LET series == params[pos]
                 isTotal == series.seriesName = totalMark
                 title == IF ~isTotal \/ breakdown THEN series.name ELSE "undefined"
             IN  IF useNonCumulative /\ ~isTotal
                 THEN [empty |-> FALSE, title |-> title,
                       rows |-> NonCumulativeTooltipRows(series.data),
                       percentChange |->
                           PercentChange(series.data.start, series.data.originalValue)]
                 ELSE [empty |-> FALSE, title |-> title,
                       rows |-> (IF ~isTotal
                                 THEN <<TooltipRow(series.seriesName,
                                                   Formatted(series.data.originalValue))>>
                                 ELSE << >>)
                                \o <<TooltipRow(totalMark, Formatted(series.data.totalSum))>>,
                       percentChange |-> NoPercent]

\* ------------------------------------------------------------ state machine
VARIABLES
    data,           \* queriesData[0].data: the caller's row table
    formData,       \* the configuration the series depend on
    legendState,    \* the caller's legend selection
    echartOptions,  \* series and xAxis.data of the last call's result
    renders,        \* number of transformProps calls made
    tooltip         \* the last hover: the axis index and what formatTooltip returned

vars == <<data, formData, legendState, echartOptions, renders, tooltip>>

\* input domains
Cats == {"A", "B", TOTAL_MARK}
Breakdowns == {"x", TOTAL_MARK}
Metrics == {Num(n) : n \in (-MaxVal)..MaxVal} \cup {Null, Undef}
StartEnds == {Num(n) : n \in 0..MaxVal} \cup {Null, Undef}

BreakdownValues(breakdown) == IF breakdown THEN Breakdowns ELSE {NoValue}
CumulativeRows(breakdown) ==
    {Row(c, b, m, Undef, Undef) : c \in Cats, b \in BreakdownValues(breakdown), m \in Metrics}
NonCumulativeRows(breakdown) ==
    {Row(c, b, Undef, st, en) :
        c \in (IF breakdown THEN {"A"} ELSE {"A", TOTAL_MARK}),
        b \in BreakdownValues(breakdown), st \in StartEnds, en \in StartEnds}
Tables(rows) == UNION {[1..n -> rows] : n \in 0..MaxRows}

LegendStates ==
    {[INCREASE |-> TRUE, DECREASE |-> TRUE],
     [INCREASE |-> FALSE, DECREASE |-> TRUE],
     [INCREASE |-> TRUE, DECREASE |-> FALSE]}

FormData(nonCumulative, breakdown, showTotal) ==
    [nonCumulative |-> nonCumulative, metricStart |-> nonCumulative,
     metricEnd |-> nonCumulative, breakdown |-> breakdown, showTotal |-> showTotal]

NoOptions == [series |-> EmptySeries, xAxisData |-> << >>]
NoTooltip == [index |-> 0, html |-> EmptyTooltip]

InitCumulative ==
    /\ \E breakdown \in BOOLEAN, showTotal \in BOOLEAN :
          /\ formData = FormData(FALSE, breakdown, showTotal)
          /\ data \in Tables(CumulativeRows(breakdown))
    /\ legendState \in LegendStates \ {[INCREASE |-> TRUE, DECREASE |-> TRUE]}

InitNonCumulative ==
    /\ \E breakdown \in BOOLEAN :
          /\ formData = FormData(TRUE, breakdown, TRUE)
          /\ data \in Tables(NonCumulativeRows(breakdown))
    /\ legendState = [INCREASE |-> TRUE, DECREASE |-> TRUE]

Init ==
    /\ InitCumulative \/ InitNonCumulative
    /\ echartOptions = NoOptions
    /\ renders = 0
    /\ tooltip = NoTooltip

\* a render pass: the host calls transformProps on its chart props
TransformProps ==
    /\ renders < MaxRenders
    /\ LET r == transformProps(data, formData, legendState)
       IN  /\ echartOptions' = [series |-> r.series, xAxisData |-> r.xAxisData]
           /\ data' = r.data
    /\ renders' = renders + 1
    /\ UNCHANGED <<formData, legendState, tooltip>>

SeriesNames == <<ASSIST_MARK, LEGEND.INCREASE, LEGEND.DECREASE, LEGEND.TOTAL>>
SeriesData(opts) ==
    <<opts.series.assist, opts.series.increase, opts.series.decrease, opts.series.total>>

\* the entries the chart hands the tooltip formatter for axis index idx when
\* the series named hidden is switched off in the legend
RECURSIVE ParamsFrom(_, _, _, _)
ParamsFrom(opts, idx, hidden, k) ==
    IF k > Len(SeriesNames) THEN << >>
    ELSE (IF SeriesNames[k] = hidden THEN << >>
          ELSE <<Param(SeriesNames[k], opts.xAxisData[idx], idx, SeriesData(opts)[k][idx])>>)
         \o ParamsFrom(opts, idx, hidden, k + 1)

ParamsAt(opts, idx, hidden) == ParamsFrom(opts, idx, hidden, 1)

\* the pointer moves over axis index idx: the chart calls tooltip.formatter
Hover ==
    /\ renders > 0
    /\ \E idx \in 1..Len(echartOptions.xAxisData),
          hidden \in {"none", LEGEND.INCREASE, LEGEND.DECREASE} :
          tooltip' = [index |-> idx,
                      html |-> formatTooltip(ParamsAt(echartOptions, idx, hidden),
                                             formData.breakdown, TOTAL_MARK,
                                             UseNonCumulative(formData))]
    /\ UNCHANGED <<data, formData, legendState, echartOptions, renders>>

Next == TransformProps \/ Hover

Spec == Init /\ [][Next]_vars

\* ------------------------------------------------------------ properties
Rendered == renders > 0
Cumulative == ~UseNonCumulative(formData)
AxisLen == Len(echartOptions.xAxisData)
Assist == echartOptions.series.assist
Increase == echartOptions.series.increase
Decrease == echartOptions.series.decrease
Total == echartOptions.series.total
Indices == 1..AxisLen

\* C1: the assist, increase, decrease and total series all have the length of
\* the category axis data, in either mode, with or without a breakdown column
\* and whatever showTotal is.
SeriesAligned ==
    /\ Len(Assist) = AxisLen
    /\ Len(Increase) = AxisLen
    /\ Len(Decrease) = AxisLen
    /\ Len(Total) = AxisLen

\* C1 witness: a cumulative breakdown table of two groups rendered with its
\* two synthetic total rows, so the axis is longer than the input table
SeriesAlignedWitness ==
    /\ Rendered /\ Cumulative /\ formData.breakdown /\ formData.showTotal
    /\ Len(data) = 2 /\ AxisLen = 4
    /\ Len(Assist) = 4 /\ Assist[2].value = TOKEN

\* C2: at every index exactly one of increase, decrease, total holds a value
\* other than TOKEN.
ExactlyOneBar ==
    \A i \in Indices :
        \/ Increase[i].value # TOKEN /\ Decrease[i].value = TOKEN /\ Total[i].value = TOKEN
        \/ Increase[i].value = TOKEN /\ Decrease[i].value # TOKEN /\ Total[i].value = TOKEN
        \/ Increase[i].value = TOKEN /\ Decrease[i].value = TOKEN /\ Total[i].value # TOKEN

\* C2 witness: a cumulative result with an increase bar, a decrease bar and a
\* total bar at three different indices
ExactlyOneBarWitness ==
    /\ Rendered /\ Cumulative
    /\ \E i, j, k \in Indices :
          /\ Increase[i].value # TOKEN
          /\ Decrease[j].value # TOKEN
          /\ Total[k].value # TOKEN

\* ---- reference notions the properties are stated with
\* a numeric field read with absent and null as 0
FieldOr0(v) == IF v.k = "num" THEN v.n ELSE 0

\* the grouped sequence the cumulative series are built from
GroupedRows == transformProps(data, formData, legendState).transformedData

\* index i holds no total bar
NonTotalAt(i) == Total[i].value = TOKEN

\* the point that holds the bar of index i
BarAt(i) ==
    IF Total[i].value # TOKEN THEN Total[i]
    ELSE IF Decrease[i].value # TOKEN THEN Decrease[i]
    ELSE Increase[i]

\* the running total carried by the point of index i, and the one before it
After(i) == BarAt(i).totalSum.n
Before(i) == IF i = 1 THEN 0 ELSE After(i - 1)

\* the signed delta of the row at index i
DeltaAt(i) ==
    IF Cumulative THEN FieldOr0(GroupedRows[i].m)
    ELSE FieldOr0(data[i].e) - FieldOr0(data[i].s)

\* the row at index i has every number its mode reads
NumbersPresentAt(i) ==
    IF Cumulative THEN IsNum(GroupedRows[i].m)
    ELSE IsNum(data[i].s) /\ IsNum(data[i].e)

\* a series value with TOKEN read as 0
TokenAs0(p) == IF p.value = TOKEN THEN Num(0) ELSE p.value

\* increase[i].value - decrease[i].value gives back the row's delta
RoundTripAt(i) == JsSub(TokenAs0(Increase[i]), TokenAs0(Decrease[i])) = Num(DeltaAt(i))

\* no input row carries the total marker
MarkerFree == \A j \in 1..Len(data) : data[j].cat # TOTAL_MARK /\ data[j].bd # TOTAL_MARK

\* the sum of the metric (absent and null as 0) over the rows that satisfy P
RECURSIVE SumWhere(_, _, _)
SumWhere(rows, P(_), j) ==
    IF j > Len(rows) THEN 0
    ELSE (IF P(rows[j]) THEN FieldOr0(rows[j].m) ELSE 0) + SumWhere(rows, P, j + 1)

\* where a category is first seen in the input table
FirstSeenAt(cat) ==
    CHOOSE j \in 1..Len(data) :
        data[j].cat = cat /\ \A k \in 1..(j - 1) : data[k].cat # cat

\* C3 as stated: the round trip at every non-total index, negative and
\* zero-crossing running totals included (over rows whose numbers are present).
RoundTripEverywhere ==
    Rendered =>
        \A i \in Indices : NonTotalAt(i) /\ NumbersPresentAt(i) => RoundTripAt(i)

\* C3 amended: increase[i].value - decrease[i].value (TOKEN as 0) gives back
\* the row's signed delta at every non-total index in non-cumulative mode, and
\* in cumulative mode at every non-total index whose metric is a number and
\* whose running total is >= 0 before the row and > 0 after it.
RoundTripPositiveSide ==
    Rendered =>
        \A i \in Indices :
            /\ NonTotalAt(i)
            /\ (Cumulative => NumbersPresentAt(i) /\ Before(i) >= 0 /\ After(i) > 0)
            => RoundTripAt(i)

\* C3 witness: a cumulative decrease bar whose running total stays positive
RoundTripWitness ==
    /\ Rendered /\ Cumulative
    /\ \E i \in Indices :
          /\ Decrease[i].value # TOKEN
          /\ Before(i) > 0 /\ After(i) > 0
          /\ DeltaAt(i) < 0

\* C4 as stated: a total row's bar shows the sum its synthetic row holds: its
\* own group's sum with a breakdown column, the grand total without one.
TotalIsGroupSum ==
    Rendered /\ Cumulative /\ MarkerFree =>
        \A i \in Indices :
            Total[i].value # TOKEN =>
                Total[i].value =
                    Num(IF formData.breakdown
                        THEN LET InGroup(r) == r.cat = echartOptions.xAxisData[i]
                             IN  SumWhere(data, InGroup, 1)
                        ELSE LET Any(r) == TRUE IN SumWhere(data, Any, 1))

\* C4 amended: in cumulative mode, for input rows without the total marker,
\* a total row's bar shows the running total: with a breakdown column the sum
\* of the metric over the rows of its own category group and of every group
\* before it, without one the grand total over all categories.
TotalIsRunningTotal ==
    Rendered /\ Cumulative /\ MarkerFree =>
        \A i \in Indices :
            Total[i].value # TOKEN =>
                Total[i].value =
                    Num(IF formData.breakdown
                        THEN LET UpToGroup(r) ==
                                     FirstSeenAt(r.cat) <= FirstSeenAt(echartOptions.xAxisData[i])
                             IN  SumWhere(data, UpToGroup, 1)
                        ELSE LET Any(r) == TRUE IN SumWhere(data, Any, 1))

\* C4 witness: the total row of a second group whose bar differs from the
\* group's own sum
TotalIsRunningTotalWitness ==
    /\ Rendered /\ Cumulative /\ MarkerFree /\ formData.breakdown /\ formData.showTotal
    /\ AxisLen = 4
    /\ Total[2].value # TOKEN /\ Total[4].value # TOKEN
    /\ Total[4].value # Num(FieldOr0(data[2].m))

NonCumulativeDelta ==
    Rendered /\ ~Cumulative =>
        \A i \in Indices :
            LET row == data[i]
                start == FieldOr0(row.s)
                end == FieldOr0(row.e)
                delta == end - start
            IN  ~(row.cat = TOTAL_MARK \/ (formData.breakdown /\ row.bd = TOTAL_MARK)) =>
                    /\ Assist[i].value = Num(start)
                    /\ delta >= 0 =>
                          Increase[i].value = Num(delta) /\ Decrease[i].value = TOKEN
                    /\ delta < 0 =>
                          Decrease[i].value = Num(-delta) /\ Increase[i].value = TOKEN
                    /\ Total[i].value = TOKEN
                    /\ BarAt(i).start = Num(start)
                    /\ BarAt(i).end = Num(end)
                    /\ BarAt(i).originalValue = Num(delta)

\* C6 witness: two non-total rows, a decrease with a nonzero start and an
\* increase whose start is missing
NonCumulativeDeltaWitness ==
    /\ Rendered /\ ~Cumulative /\ AxisLen = 2
    /\ Decrease[1].value # TOKEN /\ Assist[1].value # Num(0)
    /\ Increase[2].value # TOKEN /\ Increase[2].value # Num(0) /\ Nullish(data[2].s)

\* C7: cumulative, no breakdown, showTotal, no input category equal to the
\* total marker: the axis holds each distinct category once, in first-seen
\* order, each bar carrying the sum of its category's metric, then one total
\* entry; the total series is TOKEN everywhere but last, where it is the sum
\* of the metric over all input rows.
CategoryAxisAndGrandTotal ==
    /\ Rendered /\ Cumulative /\ ~formData.breakdown /\ formData.showTotal
    /\ \A j \in 1..Len(data) : data[j].cat # TOTAL_MARK
    => LET axis == echartOptions.xAxisData
           n == AxisLen - 1
       IN  /\ AxisLen >= 1
           /\ axis[AxisLen] = TOTAL_MARK
           /\ {axis[k] : k \in 1..n} = {data[j].cat : j \in 1..Len(data)}
           /\ \A a, b \in 1..n : a < b => FirstSeenAt(axis[a]) < FirstSeenAt(axis[b])
           /\ \A k \in 1..n :
                 /\ Total[k].value = TOKEN
                 /\ LET InCat(r) == r.cat = axis[k]
                    IN  BarAt(k).originalValue = Num(SumWhere(data, InCat, 1))
           /\ LET Any(r) == TRUE
              IN  Total[AxisLen].value = Num(SumWhere(data, Any, 1))

\* C7 witness: two rows of one category with nonzero metrics, collapsed into
\* one entry before the total entry
CategoryAxisAndGrandTotalWitness ==
    /\ Rendered /\ Cumulative /\ ~formData.breakdown /\ formData.showTotal
    /\ Len(data) = 2 /\ AxisLen = 2
    /\ data[1].cat # TOTAL_MARK
    /\ FieldOr0(data[1].m) # 0 /\ FieldOr0(data[2].m) # 0
    /\ Total[2].value # Num(0)

\* C8: a call of transformProps leaves the caller's row table as it was, and
\* a second call on the same inputs returns the same series and axis data.
IdempotentRender ==
    [][renders' # renders =>
          /\ data' = data
          /\ renders >= 1 => echartOptions' = echartOptions]_vars

\* C8 witness: a breakdown table with showTotal rendered twice, two synthetic
\* total rows in the result
IdempotentRenderWitness ==
    /\ renders = 2 /\ Cumulative /\ formData.breakdown /\ formData.showTotal
    /\ Len(data) = 2 /\ AxisLen = 4

\* the input table with every absent or null number written as 0
ZeroFilled(rows) ==
    [j \in 1..Len(rows) |->
        [rows[j] EXCEPT !.m = IF Cumulative THEN OrZero(@) ELSE @,
                        !.s = IF Cumulative THEN @ ELSE OrZero(@),
                        !.e = IF Cumulative THEN @ ELSE OrZero(@)]]

\* C9 as stated: every bar of a row is a number, the one the call computes
\* when the absent and null fields of the table are written as 0.
MissingReadAsZero ==
    Rendered =>
        LET filled == transformProps(ZeroFilled(data), formData, legendState).series
        IN  \A i \in Indices :
                /\ BarAt(i).value.k = "num"
                /\ Increase[i].value = filled.increase[i].value
                /\ Decrease[i].value = filled.decrease[i].value
                /\ Total[i].value = filled.total[i].value
                /\ BarAt(i).totalSum = IF Total[i].value # TOKEN
                                       THEN filled.total[i].totalSum
                                       ELSE IF Decrease[i].value # TOKEN
                                       THEN filled.decrease[i].totalSum
                                       ELSE filled.increase[i].totalSum

\* C10: the non-cumulative tooltip of a non-total entry has a "Change (%)" row
\* exactly when the entry's start is not 0, showing (delta / start) * 100 to two
\* decimals; with start = 0 it has a "Change" row showing the formatted delta
\* and computes no percentage; it never has both rows.
TooltipChangeRow ==
    /\ ~Cumulative /\ tooltip.index > 0 /\ ~tooltip.html.empty
    /\ NonTotalAt(tooltip.index)
    => LET i == tooltip.index
           start == FieldOr0(data[i].s)
           delta == FieldOr0(data[i].e) - start
           rows == tooltip.html.rows
           labels == {rows[k].label : k \in 1..Len(rows)}
       IN  /\ "Change (%)" \in labels <=> start # 0
           /\ "Change" \in labels <=> start = 0
           /\ start = 0 =>
                 /\ \E k \in 1..Len(rows) :
                       rows[k] = TooltipRow("Change", Formatted(Num(delta)))
                 /\ tooltip.html.percentChange = NoPercent
           /\ start # 0 =>
                 /\ tooltip.html.percentChange.k = "num"
                 /\ tooltip.html.percentChange.d = start
                 /\ \E k \in 1..Len(rows) :
                       /\ rows[k].label = "Change (%)"
                       /\ rows[k].text.kind = "percent"
                       /\ rows[k].text.v.k = "num"
                       /\ 2 * Abs(rows[k].text.v.n * start - 10000 * delta) <= Abs(start)

\* C10 witness: the tooltip of a row with start = 0 and end # 0, falling back
\* to the "Change" row
TooltipChangeRowWitness ==
    /\ ~Cumulative /\ tooltip.index > 0 /\ ~tooltip.html.empty
    /\ NonTotalAt(tooltip.index)
    /\ FieldOr0(data[tooltip.index].s) = 0
    /\ FieldOr0(data[tooltip.index].e) # 0
    /\ \E k \in 1..Len(tooltip.html.rows) : tooltip.html.rows[k].label = "Change"

\* C11: in cumulative mode, for every non-total row whose metric is a number
\* (positive, negative or zero), with p the running total before the row, t
\* the one after it, a the assist value and v the row's increase or decrease
\* value: when sign(p) differs from sign(t), a = p and v = t; otherwise
\* {a, a + v} = {p, t}.  Total rows may lie in between.
StackedBarPositioning ==
    Rendered /\ Cumulative =>
        \A i \in Indices :
            NonTotalAt(i) /\ IsNum(GroupedRows[i].m) =>
                LET p == Before(i)
                    t == After(i)
                    a == Assist[i].value
                    v == BarAt(i).value
                IN  /\ IsNum(a) /\ IsNum(v)
                    /\ IF Sign(p) # Sign(t)
                       THEN a.n = p /\ v.n = t
                       ELSE {a.n, a.n + v.n} = {p, t}

\* C11 witness: a row right after a total row that takes the running total
\* from above zero to below zero
StackedBarPositioningWitness ==
    /\ Rendered /\ Cumulative
    /\ \E i \in Indices :
          /\ i > 1 /\ NonTotalAt(i) /\ ~NonTotalAt(i - 1)
          /\ IsNum(GroupedRows[i].m)
          /\ Before(i) > 0 /\ After(i) < 0
          /\ Assist[i].value = Num(Before(i))
          /\ Decrease[i].value = Num(After(i))

\* the opacity of the assist bar of index i
AssistOpacityAt(i) == Assist[i].itemStyle.opacity

\* C12 as stated, for the rows it names in particular, those whose assist bar
\* is coloured (the running total crosses or reaches zero): in cumulative
\* mode, for every such non-total row after the first (metric a number), if
\* its bar is in the increase series and the legend marks increase false, or
\* its bar is in the decrease series and the legend marks decrease false, the
\* opacity of its assist bar is 0.
LegendOffHidesAssist ==
    Rendered /\ Cumulative =>
        \A i \in Indices :
            /\ i > 1 /\ NonTotalAt(i) /\ IsNum(GroupedRows[i].m)
            /\ Assist[i].itemStyle.color # "transparent"
            =>
                /\ Increase[i].value # TOKEN /\ legendState.INCREASE = FALSE
                      => AssistOpacityAt(i) = Num(0)
                /\ Decrease[i].value # TOKEN /\ legendState.DECREASE = FALSE
                      => AssistOpacityAt(i) = Num(0)

\* C13 as stated: in cumulative mode a non-total row with a negative metric
\* is in the decrease series and one with a metric >= 0 is in the increase
\* series, whatever the running total before it.
SeriesBySignOfMetric ==
    Rendered /\ Cumulative =>
        \A i \in Indices :
            NonTotalAt(i) /\ IsNum(GroupedRows[i].m) =>
                IF GroupedRows[i].m.n < 0
                THEN Decrease[i].value # TOKEN /\ Increase[i].value = TOKEN
                ELSE Increase[i].value # TOKEN /\ Decrease[i].value = TOKEN

=============================================================================
